---- MODULE Spec2Model ----
(***************************************************************************)
(* Model of safe_cli/prompt_parser.py: the argparse command registry       *)
(* built by get_prompt_parser, the check_ethereum_address validator and    *)
(* the safe_exception wrapper placed around every handler.                 *)
(*                                                                         *)
(* One input line is processed in steps: ReadLine, Resolve (parse_args),   *)
(* then either Reject (argparse reported an error) or Dispatch (the        *)
(* wrapped handler is called and calls the operator), then Complete or     *)
(* Escape.  The per-line values (line, result, calls, emitted, raised,     *)
(* propagated) are discarded when the line is done.                        *)
(***************************************************************************)
EXTENDS Integers, Sequences, FiniteSets, TLC

VARIABLES
    pc,          \* position of the interpreter
    line,        \* tokens of the current line (after whitespace split)
    result,      \* what parse_args produced for the line
    calls,       \* operator methods called for the line, in order
    raised,      \* what the operator call raised (NoException if it returned)
    emitted,     \* strings handed to print_formatted_text(HTML(...))
    propagated   \* exception that left the wrapped handler (NoException if none)

vars == <<pc, line, result, calls, raised, emitted, propagated>>

(***************************************************************************)
(* Bounds                                                                  *)
(***************************************************************************)
MaxArgs == 4     \* argument tokens per line

(***************************************************************************)
(* Values: Python objects that flow through the parser and the handlers.   *)
(* Every value has the same record shape so that values of different       *)
(* Python types can be stored side by side.                                *)
(***************************************************************************)
StrV(s)  == [type |-> "str",  int |-> 0, str |-> s,  list |-> <<>>]
IntV(n)  == [type |-> "int",  int |-> n, str |-> "", list |-> <<>>]
ListV(l) == [type |-> "list", int |-> 0, str |-> "", list |-> l]

\* str(x) as applied by an f-string replacement field
str(v) == IF v.type = "int" THEN ToString(v.int) ELSE v.str

(***************************************************************************)
(* Tokens                                                                  *)
(***************************************************************************)
AddressA == "0x5aAeb6053F3E94C9b9A09f33669435E7Ef1BeAed"
AddressB == "0xfB6916095ca1df60bB79Ce92cE3Ea74c37c5d359"

ArgTokens == {AddressA, AddressB, "notanaddress", "1000000"}

\* Web3.isChecksumAddress on the tokens of the model
isChecksumAddress(address) == address \in {AddressA, AddressB}

\* int(token): the decimal literals among the tokens and their values
IntLiterals == ("1000000" :> 1000000) @@ ("3" :> 3)

\* A type callable returns [exc, value, message]: exc = "" when it returned
\* value, otherwise the class of the exception it raised.
int(token) ==
    IF token \in DOMAIN IntLiterals
    THEN [exc |-> "", value |-> IntV(IntLiterals[token]), message |-> ""]
    ELSE [exc |-> "ValueError", value |-> StrV(token),
          message |-> "invalid int value: '" \o token \o "'"]

\* Faulty variant of check_ethereum_address: returns the address unchecked.
check_ethereum_address_unchecked(address) ==
    [exc |-> "", value |-> StrV(address), message |-> ""]

check_ethereum_address(address) ==
    IF ~isChecksumAddress(address)
    THEN [exc |-> "ArgumentTypeError", value |-> StrV(address),
          message |-> address \o " is not a valid checksummed ethereum address"]
    ELSE [exc |-> "", value |-> StrV(address), message |-> ""]

\* type=str
str_type(token) == [exc |-> "", value |-> StrV(token), message |-> ""]

Convert(type, token) ==
    CASE type = "check_ethereum_address" -> check_ethereum_address(token)
      [] type = "int"                    -> int(token)
      [] OTHER                           -> str_type(token)

(***************************************************************************)
(* The nested handler functions: the operator method each one calls and    *)
(* the namespace attributes it passes, in call order.                      *)
(***************************************************************************)
Handler(method, params) == [method |-> method, params |-> params]

show_cli_owners == Handler("show_cli_owners", <<>>)
load_cli_owners == Handler("load_cli_owners", <<"keys">>)
unload_cli_owners == Handler("unload_cli_owners", <<"addresses">>)
add_owner == Handler("add_owner", <<"address">>)
remove_owner == Handler("remove_owner", <<"address">>)
change_fallback_handler == Handler("change_fallback_handler", <<"address">>)
change_master_copy == Handler("change_master_copy", <<"address">>)
change_threshold == Handler("change_threshold", <<"threshold">>)
send_ether == Handler("send_ether", <<"address", "value">>)
\* Faulty variant of send_erc20: the two addresses are passed in the wrong order.
send_erc20_swapped == Handler("send_erc20", <<"token_address", "address", "value">>)
send_erc20 == Handler("send_erc20", <<"address", "token_address", "value">>)
send_erc721 == Handler("send_erc721", <<"address", "token_address", "token_id">>)
get_threshold == Handler("get_threshold", <<>>)
get_nonce == Handler("get_nonce", <<>>)
get_owners == Handler("get_owners", <<>>)
enable_module == Handler("enable_module", <<"address">>)
disable_module == Handler("disable_module", <<"address">>)
update_version == Handler("update_version", <<>>)
get_info == Handler("print_info", <<>>)
get_refresh == Handler("refresh_safe_cli_info", <<>>)
get_balances == Handler("get_balances", <<>>)
get_history == Handler("get_transaction_history", <<>>)

Handlers ==
       ("show_cli_owners" :> show_cli_owners)
    @@ ("load_cli_owners" :> load_cli_owners)
    @@ ("unload_cli_owners" :> unload_cli_owners)
    @@ ("add_owner" :> add_owner)
    @@ ("remove_owner" :> remove_owner)
    @@ ("change_fallback_handler" :> change_fallback_handler)
    @@ ("change_master_copy" :> change_master_copy)
    @@ ("change_threshold" :> change_threshold)
    @@ ("send_ether" :> send_ether)
    @@ ("send_erc20" :> send_erc20)
    @@ ("send_erc721" :> send_erc721)
    @@ ("get_threshold" :> get_threshold)
    @@ ("get_nonce" :> get_nonce)
    @@ ("get_owners" :> get_owners)
    @@ ("enable_module" :> enable_module)
    @@ ("disable_module" :> disable_module)
    @@ ("update_version" :> update_version)
    @@ ("get_info" :> get_info)
    @@ ("get_refresh" :> get_refresh)
    @@ ("get_balances" :> get_balances)
    @@ ("get_history" :> get_history)

(***************************************************************************)
(* The registry: one sub-parser per command, its positional arguments and  *)
(* the handler installed with set_defaults(func=...).                      *)
(***************************************************************************)
Arg(dest, type, nargs) == [dest |-> dest, type |-> type, nargs |-> nargs]
Parser(arguments, func) == [arguments |-> arguments, func |-> func]

parser_show_cli_owners == Parser(<<>>, "show_cli_owners")
parser_load_cli_owners == Parser(<<Arg("keys", "str", "+")>>, "load_cli_owners")
parser_unload_cli_owners ==
    Parser(<<Arg("addresses", "check_ethereum_address", "+")>>, "unload_cli_owners")
parser_change_threshold == Parser(<<Arg("threshold", "int", "None")>>, "change_threshold")
parser_add_owner ==
    Parser(<<Arg("address", "check_ethereum_address", "None")>>, "add_owner")
parser_remove_owner ==
    Parser(<<Arg("address", "check_ethereum_address", "None")>>, "remove_owner")
parser_change_fallback_handler ==
    Parser(<<Arg("address", "check_ethereum_address", "None")>>, "change_fallback_handler")
parser_change_master_copy ==
    Parser(<<Arg("address", "check_ethereum_address", "None")>>, "change_master_copy")
parser_update == Parser(<<>>, "update_version")
\* Faulty variant of parser_send_ether: the value argument is not declared.
parser_send_ether_no_value ==
    Parser(<<Arg("address", "check_ethereum_address", "None")>>, "send_ether")
parser_send_ether ==
    Parser(<<Arg("address", "check_ethereum_address", "None"),
             Arg("value", "int", "None")>>, "send_ether")
parser_send_erc20 ==
    Parser(<<Arg("address", "check_ethereum_address", "None"),
             Arg("token_address", "check_ethereum_address", "None"),
             Arg("value", "int", "None")>>, "send_erc20")
parser_send_erc721 ==
    Parser(<<Arg("address", "check_ethereum_address", "None"),
             Arg("token_address", "check_ethereum_address", "None"),
             Arg("token_id", "int", "None")>>, "send_erc721")
parser_get_threshold == Parser(<<>>, "get_threshold")
parser_get_nonce == Parser(<<>>, "get_nonce")
parser_get_owners == Parser(<<>>, "get_owners")
parser_enable_module ==
    Parser(<<Arg("address", "check_ethereum_address", "None")>>, "enable_module")
parser_disable_module ==
    Parser(<<Arg("address", "check_ethereum_address", "None")>>, "disable_module")
parser_info == Parser(<<>>, "get_info")
parser_refresh == Parser(<<>>, "get_refresh")
parser_balances == Parser(<<>>, "get_balances")
parser_history == Parser(<<>>, "get_history")

\* subparsers: the name -> sub-parser map filled by add_parser
subparsers ==
       ("show_cli_owners" :> parser_show_cli_owners)
    @@ ("load_cli_owners" :> parser_load_cli_owners)
    @@ ("unload_cli_owners" :> parser_unload_cli_owners)
    @@ ("change_threshold" :> parser_change_threshold)
    @@ ("add_owner" :> parser_add_owner)
    @@ ("remove_owner" :> parser_remove_owner)
    @@ ("change_fallback_handler" :> parser_change_fallback_handler)
    @@ ("change_master_copy" :> parser_change_master_copy)
    @@ ("update" :> parser_update)
    @@ ("send_ether" :> parser_send_ether)
    @@ ("send_erc20" :> parser_send_erc20)
    @@ ("send_erc721" :> parser_send_erc721)
    @@ ("get_threshold" :> parser_get_threshold)
    @@ ("get_nonce" :> parser_get_nonce)
    @@ ("get_owners" :> parser_get_owners)
    @@ ("enable_module" :> parser_enable_module)
    @@ ("disable_module" :> parser_disable_module)
    @@ ("info" :> parser_info)
    @@ ("refresh" :> parser_refresh)
    @@ ("balances" :> parser_balances)
    @@ ("history" :> parser_history)

CommandNames == DOMAIN subparsers

(***************************************************************************)
(* parse_args of the parser returned by get_prompt_parser.  All arguments  *)
(* are positionals and the tokens of the model never start with '-'.       *)
(***************************************************************************)
\* Results of parse_args: a Namespace, or the SystemExit(2) of parser.error
Namespace(has_func, func, values) ==
    [kind |-> "Namespace", has_func |-> has_func, func |-> func, values |-> values]

error(reason, message, offending) ==
    [kind |-> "SystemExit", code |-> 2, reason |-> reason, message |-> message,
     offending |-> offending]

NoResult == [kind |-> "None"]

Min(a, b) == IF a < b THEN a ELSE b

\* Number of tokens each of the first k positionals consumes when n tokens
\* remain: nargs=None takes one, '+' is greedy but leaves one token for
\* each later positional.
RECURSIVE arg_counts(_, _, _, _)
arg_counts(arguments, j, k, remaining) ==
    IF j > k THEN <<>>
    ELSE LET c == IF arguments[j].nargs = "+" THEN remaining - (k - j) ELSE 1
         IN  <<c>> \o arg_counts(arguments, j + 1, k, remaining - c)

\* The longest prefix of the positionals whose patterns match a prefix of
\* the tokens (every positional here needs at least one token).
match_partial(arguments, n) ==
    arg_counts(arguments, 1, Min(Len(arguments), n), n)

\* Applies the type callable to each token in order; stops at the first
\* token the callable rejects.
RECURSIVE get_values(_, _)
get_values(type, tokens) ==
    IF tokens = <<>> THEN [exc |-> "", values |-> <<>>, message |-> "", offending |-> ""]
    ELSE LET c == Convert(type, Head(tokens))
         IN  IF c.exc # ""
             THEN [exc |-> c.exc, values |-> <<>>, message |-> c.message,
                   offending |-> Head(tokens)]
             ELSE LET rest == get_values(type, Tail(tokens))
                  IN  IF rest.exc # "" THEN rest
                      ELSE [rest EXCEPT !.values = <<c.value>> \o rest.values]

\* Consumes the matched positionals in order, storing dest -> value.
RECURSIVE consume_positionals(_, _, _, _)
consume_positionals(arguments, counts, j, tokens) ==
    IF j > Len(counts) THEN [exc |-> "", values |-> <<>>, message |-> "", offending |-> ""]
    ELSE LET a    == arguments[j]
             mine == SubSeq(tokens, 1, counts[j])
             got  == get_values(a.type, mine)
         IN  IF got.exc # ""
             THEN [got EXCEPT !.message = "argument " \o a.dest \o ": " \o got.message]
             ELSE LET value == IF a.nargs = "+" THEN ListV(got.values) ELSE got.values[1]
                      rest  == consume_positionals(arguments, counts, j + 1,
                                                   SubSeq(tokens, counts[j] + 1, Len(tokens)))
                  IN  IF rest.exc # "" THEN rest
                      ELSE [rest EXCEPT !.values =
                                <<[dest |-> a.dest, value |-> value]>> \o rest.values]

RECURSIVE Sum(_)
Sum(counts) == IF counts = <<>> THEN 0 ELSE Head(counts) + Sum(Tail(counts))

RECURSIVE join(_, _)
join(sep, strings) ==
    IF strings = <<>> THEN ""
    ELSE IF Len(strings) = 1 THEN strings[1]
    ELSE strings[1] \o sep \o join(sep, Tail(strings))

\* The sub-parser's parse_known_args: a result and the unconsumed tokens.
parse_known_args(parser, tokens) ==
    LET arguments == parser.arguments
        counts    == match_partial(arguments, Len(tokens))
        got       == consume_positionals(arguments, counts, 1, tokens)
        missing   == [i \in 1..(Len(arguments) - Len(counts)) |->
                          arguments[Len(counts) + i].dest]
        extras    == SubSeq(tokens, Sum(counts) + 1, Len(tokens))
    IN  IF got.exc # ""
        THEN [result |-> error(got.exc, got.message, got.offending), extras |-> <<>>]
        ELSE IF missing # <<>>
        THEN [result |-> error("required",
                               "the following arguments are required: "
                                   \o join(", ", missing), ""),
              extras |-> <<>>]
        ELSE [result |-> Namespace(TRUE, parser.func, got.values), extras |-> extras]

\* Lookup of the command token among the sub-parser names (exact match).
\* Faulty variant of select_parser: an abbreviation selects a sub-parser.
select_parser_abbrev(name) ==
    IF name \in DOMAIN subparsers THEN name
    ELSE IF name = "add_own" THEN "add_owner" ELSE ""

select_parser(name) == IF name \in DOMAIN subparsers THEN name ELSE ""

unrecognized(extras) == extras # <<>>

parse_args(tokens) ==
    IF tokens = <<>> THEN Namespace(FALSE, "", <<>>)
    ELSE LET name == select_parser(Head(tokens))
         IN  IF name = ""
             THEN error("invalid choice", "invalid choice: '" \o Head(tokens) \o "'", Head(tokens))
             ELSE LET sub == parse_known_args(subparsers[name], Tail(tokens))
                  IN  IF sub.result.kind = "SystemExit" THEN sub.result
                      ELSE IF unrecognized(sub.extras)
                      THEN error("unrecognized",
                                 "unrecognized arguments: " \o join(" ", sub.extras), "")
                      ELSE sub.result

(***************************************************************************)
(* Exceptions and the safe_exception wrapper                               *)
(***************************************************************************)
Exc(cls, args) == [cls |-> cls, args |-> args]
NoException == Exc("None", <<>>)

\* The classes named by the except clauses of the wrapper.  They are
\* imported from safe_operator and api.base_api; none is a subclass of
\* another, so a clause matches exactly the class it names.
CaughtClasses ==
    {"BaseAPIException", "NotEnoughSignatures", "SenderRequiredException",
     "ExistingOwnerException", "NonExistingOwnerException", "ThresholdLimitException",
     "SameFallbackHandlerException", "FallbackHandlerNotSupportedException",
     "SameMasterCopyException", "InvalidMasterCopyException",
     "SafeAlreadyUpdatedException", "NotEnoughEtherToSend", "NotEnoughTokenToSend"}

\* Exception classes the operator can raise that no except clause names
OtherClasses == {"ValueError", "SafeOperatorException"}

\* What function(*args) did: the operator calls it made and how it ended.
\* Reading a namespace attribute that was never set raises AttributeError
\* before the operator is reached.
HasAttr(ns, dest) == \E i \in 1..Len(ns.values) : ns.values[i].dest = dest
Attr(ns, dest) == ns.values[CHOOSE i \in 1..Len(ns.values) : ns.values[i].dest = dest].value

function(handler, ns, outcome) ==
    IF \E i \in 1..Len(handler.params) : ~HasAttr(ns, handler.params[i])
    THEN [calls |-> <<>>, exc |-> Exc("AttributeError", <<>>)]
    ELSE [calls |-> <<[method |-> handler.method,
                      args   |-> [i \in 1..Len(handler.params) |->
                                      Attr(ns, handler.params[i])]]>>,
          exc   |-> outcome]

\* What an except clause (or the absence of one) leaves behind
Printed(text) == [emitted |-> <<text>>, propagated |-> NoException]
Silent == [emitted |-> <<>>, propagated |-> NoException]
Raise(exc) == [emitted |-> <<>>, propagated |-> exc]

IndexError == Exc("IndexError", <<StrV("tuple index out of range")>>)

\* print_formatted_text(HTML(f'{before}{e.args[0]}{after}')): e.args[0] on an
\* exception built without arguments raises IndexError inside the except
\* clause, before anything is printed.
\* Faulty variant of first_arg: formats e.args instead of e.args[0].
first_arg_as_tuple(e, before, after) ==
    IF e.args = <<>> THEN Raise(IndexError)
    ELSE Printed(before \o "(" \o str(e.args[1]) \o ",)" \o after)

\* Faulty variant of first_arg: skips the message when e.args is empty.
first_arg_guarded(e, before, after) ==
    IF e.args = <<>> THEN Silent
    ELSE Printed(before \o str(e.args[1]) \o after)

first_arg(e, before, after) ==
    IF e.args = <<>> THEN Raise(IndexError)
    ELSE Printed(before \o str(e.args[1]) \o after)

\* except BaseAPIException as e: prints only if e.args
\* Faulty variant of except_BaseAPIException: prints without testing e.args.
except_BaseAPIException_unguarded(e) ==
    Printed("<b><ansired>" \o (IF e.args = <<>> THEN "" ELSE str(e.args[1]))
                \o "</ansired></b>")

except_BaseAPIException(e) ==
    IF e.args # <<>>
    THEN Printed("<b><ansired>" \o str(e.args[1]) \o "</ansired></b>")
    ELSE Silent

\* No except clause names the class: the exception leaves the wrapper.
\* Faulty variant of no_except_clause: a catch-all clause that passes.
no_except_clause_swallow(e) == Silent

no_except_clause(e) == Raise(e)

\* The try/except chain of wrapper
except_clauses(e) ==
    CASE e.cls = "None" -> Silent
      [] e.cls = "BaseAPIException" -> except_BaseAPIException(e)
      [] e.cls = "NotEnoughSignatures" ->
            first_arg(e, "<ansired>Cannot find enough owners to sign. ", " missing</ansired>")
      [] e.cls = "SenderRequiredException" ->
            Printed("<ansired>Please load a default sender</ansired>")
      [] e.cls = "ExistingOwnerException" ->
            first_arg(e, "<ansired>Owner ", " is already an owner of the Safe</ansired>")
      [] e.cls = "NonExistingOwnerException" ->
            first_arg(e, "<ansired>Owner ", " is not an owner of the Safe</ansired>")
      [] e.cls = "ThresholdLimitException" ->
            Printed("<ansired>Having less owners than threshold is not allowed</ansired>")
      [] e.cls = "SameFallbackHandlerException" ->
            first_arg(e, "<ansired>Fallback handler ", " is the current one</ansired>")
      [] e.cls = "FallbackHandlerNotSupportedException" ->
            Printed("<ansired>Fallback handler is not supported for your Safe, "
                        \o "you need to <b>update</b> first</ansired>")
      [] e.cls = "SameMasterCopyException" ->
            first_arg(e, "<ansired>Master Copy ", " is the current one</ansired>")
      [] e.cls = "InvalidMasterCopyException" ->
            first_arg(e, "<ansired>Master Copy ", " is not valid</ansired>")
      [] e.cls = "SafeAlreadyUpdatedException" ->
            Printed("<ansired>Safe is already updated</ansired>")
      [] e.cls \in {"NotEnoughEtherToSend", "NotEnoughTokenToSend"} ->
            first_arg(e, "<ansired>Cannot find enough to send. Current balance is ",
                      "</ansired>")
      [] OTHER -> no_except_clause(e)

\* Faulty variant of safe_exception: calls function again after a caught failure.
safe_exception_retry(run) ==
    LET after == except_clauses(run.exc)
    IN  [calls      |-> IF run.exc.cls \in CaughtClasses
                        THEN run.calls \o run.calls ELSE run.calls,
         emitted    |-> after.emitted,
         propagated |-> after.propagated]

\* wrapper(*args): runs function once and translates what it raised.
safe_exception(run) ==
    LET after == except_clauses(run.exc)
    IN  [calls |-> run.calls, emitted |-> after.emitted, propagated |-> after.propagated]

(***************************************************************************)
(* Inputs                                                                  *)
(***************************************************************************)
\* Command tokens typed by the user: every registered name and two that
\* are not registered, one of them a prefix of a registered name.
CommandTokens == CommandNames \cup {"bogus_command", "add_own"}

ArgLists == UNION {[1..n -> ArgTokens] : n \in 0..MaxArgs}

Lines == {<<>>} \cup {<<c>> \o a : c \in CommandTokens, a \in ArgLists}

\* What the operator may carry in an exception
Payloads == {IntV(2), IntV(500), StrV(AddressA), StrV("boom")}

\* How an operator method can end: it returns, or raises an exception
\* built with no argument or with one.
OperatorOutcomes ==
    {NoException} \cup
    {Exc(c, a) : c \in CaughtClasses \cup OtherClasses,
                 a \in {<<>>} \cup {<<p>> : p \in Payloads}}

(***************************************************************************)
(* The interpreter                                                         *)
(***************************************************************************)
Init ==
    /\ pc = "ready"
    /\ line = <<>>
    /\ result = NoResult
    /\ calls = <<>>
    /\ raised = NoException
    /\ emitted = <<>>
    /\ propagated = NoException

\* The per-line values are discarded when the line is done.
Discard ==
    /\ line' = <<>>
    /\ result' = NoResult
    /\ calls' = <<>>
    /\ raised' = NoException
    /\ emitted' = <<>>
    /\ propagated' = NoException

\* The loop reads the next line and splits it on whitespace.
ReadLine ==
    /\ pc = "ready"
    /\ \E l \in Lines : line' = l
    /\ pc' = "resolving"
    /\ UNCHANGED <<result, calls, raised, emitted, propagated>>

\* parse_args on the parser built by get_prompt_parser
Resolve ==
    /\ pc = "resolving"
    /\ result' = parse_args(line)
    /\ pc' = "resolved"
    /\ UNCHANGED <<line, calls, raised, emitted, propagated>>

\* parser.error ended parse_args with SystemExit(2); the loop takes the next line.
Reject ==
    /\ pc = "resolved"
    /\ result.kind = "SystemExit"
    /\ pc' = "ready"
    /\ Discard

\* args.func(args): the wrapped handler runs and calls the operator.
Dispatch ==
    /\ pc = "resolved"
    /\ result.kind = "Namespace"
    /\ result.has_func
    /\ \E outcome \in OperatorOutcomes :
          LET run  == function(Handlers[result.func], result, outcome)
              done == safe_exception(run)
          IN  /\ raised' = run.exc
              /\ calls' = calls \o done.calls
              /\ emitted' = emitted \o done.emitted
              /\ propagated' = done.propagated
    /\ pc' = "invoked"
    /\ UNCHANGED <<line, result>>

\* args.func on a Namespace that has no func attribute
DispatchNoFunc ==
    /\ pc = "resolved"
    /\ result.kind = "Namespace"
    /\ ~result.has_func
    /\ propagated' = Exc("AttributeError", <<>>)
    /\ pc' = "invoked"
    /\ UNCHANGED <<line, result, calls, raised, emitted>>

\* The wrapped handler returned; the loop takes the next line.
Complete ==
    /\ pc = "invoked"
    /\ propagated = NoException
    /\ pc' = "ready"
    /\ Discard

\* An exception left the core; its caller either goes on or stops.
Escape ==
    /\ pc = "invoked"
    /\ propagated # NoException
    /\ \E next \in {"ready", "stopped"} : pc' = next
    /\ Discard

Next ==
    \/ ReadLine
    \/ Resolve
    \/ Reject
    \/ Dispatch
    \/ DispatchNoFunc
    \/ Complete
    \/ Escape

Spec == Init /\ [][Next]_vars

\* One line is fully processed before the next is read, and no step of the
\* core waits on anything but the operator call, which returns or raises.
LiveSpec ==
    /\ Spec
    /\ WF_vars(Resolve)
    /\ WF_vars(Reject)
    /\ WF_vars(Dispatch)
    /\ WF_vars(DispatchNoFunc)
    /\ WF_vars(Complete)
    /\ WF_vars(Escape)

(***************************************************************************)
(* Vocabulary of the properties                                            *)
(***************************************************************************)
\* The failures of resolve, told apart by what parser.error reported
UnknownCommandError(r) == r.kind = "SystemExit" /\ r.reason = "invalid choice"

\* The address validator's ArgumentTypeError.  argparse re-raises it as the
\* argument error of the positional it was converting, so a FormatError is
\* also an ArgumentError below.
FormatError(r) == r.kind = "SystemExit" /\ r.reason = "ArgumentTypeError"

ArgumentError(r) ==
    /\ r.kind = "SystemExit"
    /\ r.reason \in {"required", "unrecognized", "ValueError", "ArgumentTypeError"}

\* The command grammar: the kinds of the positional slots of each command and
\* whether the last slot is one-or-more.
Slots(kinds, variadic) == [kinds |-> kinds, variadic |-> variadic]

Grammar ==
    [c \in {"show_cli_owners", "get_threshold", "get_nonce", "get_owners", "update",
            "info", "refresh", "balances", "history"} |-> Slots(<<>>, FALSE)]
    @@ ("load_cli_owners" :> Slots(<<"RawString">>, TRUE))
    @@ ("unload_cli_owners" :> Slots(<<"EthereumAddress">>, TRUE))
    @@ [c \in {"add_owner", "remove_owner", "change_fallback_handler",
               "change_master_copy", "enable_module", "disable_module"} |->
            Slots(<<"EthereumAddress">>, FALSE)]
    @@ ("change_threshold" :> Slots(<<"Integer">>, FALSE))
    @@ ("send_ether" :> Slots(<<"EthereumAddress", "Integer">>, FALSE))
    @@ [c \in {"send_erc20", "send_erc721"} |->
            Slots(<<"EthereumAddress", "EthereumAddress", "Integer">>, FALSE)]

Registered == line # <<>> /\ Head(line) \in DOMAIN Grammar

ArityOK(c, n) ==
    IF Grammar[c].variadic THEN n >= Len(Grammar[c].kinds) ELSE n = Len(Grammar[c].kinds)

\* Kind of the slot the i-th argument token falls in ("" for an extra token)
SlotKind(c, i) ==
    LET g == Grammar[c]
    IN  IF i <= Len(g.kinds) THEN g.kinds[i]
        ELSE IF g.variadic THEN g.kinds[Len(g.kinds)] ELSE ""

BadAddressPositions ==
    {i \in 1..(Len(line) - 1) :
        /\ SlotKind(Head(line), i) = "EthereumAddress"
        /\ ~isChecksumAddress(line[i + 1])}

FirstBadAddress ==
    line[1 + CHOOSE i \in BadAddressPositions : \A k \in BadAddressPositions : i <= k]

\* The value a token of a slot of the given kind stands for
SlotValue(kind, token) ==
    IF kind = "Integer" THEN IntV(IntLiterals[token]) ELSE StrV(token)

\* The argument values of a line in declared order: one value per slot, the
\* one-or-more slot being the list of its tokens.
ParsedValues ==
    LET c == Head(line)
        g == Grammar[c]
    IN  IF g.variadic
        THEN <<ListV([i \in 1..(Len(line) - 1) |-> SlotValue(g.kinds[1], line[i + 1])])>>
        ELSE [i \in 1..Len(g.kinds) |-> SlotValue(g.kinds[i], line[i + 1])]

\* The ErrorKind each exception class stands for
ErrorKindOf ==
       ("BaseAPIException" :> "GenericOperatorFailure")
    @@ ("NotEnoughSignatures" :> "InsufficientSignatures")
    @@ ("SenderRequiredException" :> "MissingSender")
    @@ ("ExistingOwnerException" :> "OwnerAlreadyPresent")
    @@ ("NonExistingOwnerException" :> "OwnerNotPresent")
    @@ ("ThresholdLimitException" :> "ThresholdBelowOwnerFloor")
    @@ ("SameFallbackHandlerException" :> "FallbackHandlerUnchanged")
    @@ ("FallbackHandlerNotSupportedException" :> "FallbackHandlerUnsupported")
    @@ ("SameMasterCopyException" :> "MasterCopyUnchanged")
    @@ ("InvalidMasterCopyException" :> "MasterCopyInvalid")
    @@ ("SafeAlreadyUpdatedException" :> "AlreadyAtLatestVersion")
    @@ ("NotEnoughEtherToSend" :> "InsufficientBalance")
    @@ ("NotEnoughTokenToSend" :> "InsufficientBalance")

ErrorKinds == {ErrorKindOf[c] : c \in DOMAIN ErrorKindOf}

PayloadKinds ==
    {"InsufficientSignatures", "OwnerAlreadyPresent", "OwnerNotPresent",
     "FallbackHandlerUnchanged", "MasterCopyUnchanged", "MasterCopyInvalid",
     "InsufficientBalance"}

RaisedKind == IF raised.cls \in DOMAIN ErrorKindOf THEN ErrorKindOf[raised.cls] ELSE ""

\* The operator failed with one of the twelve kinds, carrying what the kind declares
Classified ==
    /\ pc = "invoked"
    /\ RaisedKind \in ErrorKinds
    /\ RaisedKind \in PayloadKinds => raised.args # <<>>

\* The message of each kind, filled with the payload p
MessageOf(kind, p) ==
    CASE kind = "GenericOperatorFailure" -> "<b><ansired>" \o p \o "</ansired></b>"
      [] kind = "InsufficientSignatures" ->
            "<ansired>Cannot find enough owners to sign. " \o p \o " missing</ansired>"
      [] kind = "MissingSender" -> "<ansired>Please load a default sender</ansired>"
      [] kind = "OwnerAlreadyPresent" ->
            "<ansired>Owner " \o p \o " is already an owner of the Safe</ansired>"
      [] kind = "OwnerNotPresent" ->
            "<ansired>Owner " \o p \o " is not an owner of the Safe</ansired>"
      [] kind = "ThresholdBelowOwnerFloor" ->
            "<ansired>Having less owners than threshold is not allowed</ansired>"
      [] kind = "FallbackHandlerUnchanged" ->
            "<ansired>Fallback handler " \o p \o " is the current one</ansired>"
      [] kind = "FallbackHandlerUnsupported" ->
            "<ansired>Fallback handler is not supported for your Safe, you need to <b>update</b> first</ansired>"
      [] kind = "MasterCopyUnchanged" ->
            "<ansired>Master Copy " \o p \o " is the current one</ansired>"
      [] kind = "MasterCopyInvalid" -> "<ansired>Master Copy " \o p \o " is not valid</ansired>"
      [] kind = "AlreadyAtLatestVersion" -> "<ansired>Safe is already updated</ansired>"
      [] kind = "InsufficientBalance" ->
            "<ansired>Cannot find enough to send. Current balance is " \o p \o "</ansired>"

C4_MessageOfKind ==
    (Classified /\ (RaisedKind = "GenericOperatorFailure" => raised.args # <<>>)) =>
        /\ emitted = <<MessageOf(RaisedKind,
                                 IF raised.args = <<>> THEN "" ELSE str(raised.args[1]))>>
        /\ propagated = NoException

C4_Witness ==
    /\ pc = "invoked"
    /\ line = <<"send_ether", AddressA, "1000000">>
    /\ raised = Exc("NotEnoughEtherToSend", <<IntV(500)>>)
    /\ emitted = <<"<ansired>Cannot find enough to send. Current balance is 500</ansired>">>

\* C5 as stated: every failure of a kind of the closed set, the generic one
\* without text included, emits exactly one message.
C5_ExactlyOneMessage ==
    Classified => Len(emitted) = 1

\* C5 amended: a failure of a kind of the closed set emits exactly one message
\* and does not propagate, except that the generic failure raised without
\* text emits none.
C5_OneMessageUnlessNoText ==
    Classified =>
        /\ propagated = NoException
        /\ Len(emitted) =
              IF RaisedKind = "GenericOperatorFailure" /\ raised.args = <<>> THEN 0 ELSE 1

C5_Witness ==
    /\ pc = "invoked"
    /\ raised = Exc("BaseAPIException", <<>>)
    /\ Len(calls) = 1
    /\ emitted = <<>>

\* C6: a failure of the operator call that is none of the closed set emits
\* nothing and reaches the caller unchanged.
C6_UnmatchedPropagates ==
    (pc = "invoked" /\ raised.cls \notin DOMAIN ErrorKindOf \cup {"None"}) =>
        /\ emitted = <<>>
        /\ propagated = raised

C6_Witness ==
    /\ pc = "invoked"
    /\ Len(calls) = 1
    /\ raised = Exc("ValueError", <<StrV("boom")>>)
    /\ propagated = raised

\* C7: after an unknown command, an argument or format error, or a
\* classified operator failure, the next step takes the interpreter back to
\* ready and it gets there; the operator is called at most once per line.
FailedLine ==
    \/ pc = "resolved" /\ result.kind = "SystemExit"
    \/ Classified

MethodOf(c) ==
    CASE c = "update" -> "update_version"
      [] c = "info" -> "print_info"
      [] c = "refresh" -> "refresh_safe_cli_info"
      [] c = "balances" -> "get_balances"
      [] c = "history" -> "get_transaction_history"
      [] OTHER -> c

Dispatched == pc = "invoked" /\ result.kind = "Namespace" /\ result.has_func

\* C8 as stated: a successfully parsed line calls exactly one operator
\* method once, the one named like the command, with the parsed values in
\* declared order, and a successful call emits nothing.
C8_MethodNamedLikeCommand ==
    Dispatched =>
        /\ Len(calls) = 1
        /\ calls[1].method = Head(line)
        /\ calls[1].args = ParsedValues
        /\ raised = NoException => emitted = <<>>

\* C8 amended: a successfully parsed line calls exactly one operator method
\* once, with the parsed values in declared order, and a successful call
\* emits nothing; the method is named like the command except for update,
\* info, refresh, balances and history, which call update_version,
\* print_info, refresh_safe_cli_info, get_balances and
\* get_transaction_history.
C8_OneCallOfBoundMethod ==
    Dispatched =>
        /\ Len(calls) = 1
        /\ calls[1].method = MethodOf(Head(line))
        /\ calls[1].args = ParsedValues
        /\ raised = NoException => emitted = <<>>

C8_Witness ==
    /\ Dispatched
    /\ line = <<"send_erc20", AddressA, AddressB, "1000000">>
    /\ raised = NoException
    /\ calls = <<[method |-> "send_erc20",
                 args |-> <<StrV(AddressA), StrV(AddressB), IntV(1000000)>>]>>

\* C9: a payload-carrying kind raised without payload emits nothing and a
\* failure propagates to the caller.
C9_MissingPayloadPropagates ==
    (pc = "invoked" /\ RaisedKind \in PayloadKinds /\ raised.args = <<>>) =>
        /\ emitted = <<>>
        /\ propagated # NoException

C9_Witness ==
    /\ pc = "invoked"
    /\ Len(calls) = 1
    /\ raised = Exc("NotEnoughSignatures", <<>>)
    /\ propagated = IndexError

\* C10: resolve yields a parsed command bound to the matched command and its
\* handler, or UnknownCommandError, or ArgumentError, for every line, the
\* line without a command token included.
C10_ResolveOutcomes ==
    pc = "resolved" =>
        \/ /\ result.kind = "Namespace"
           /\ result.has_func
           /\ line # <<>>
           /\ Head(line) \in CommandNames
           /\ result.func = subparsers[Head(line)].func
        \/ UnknownCommandError(result)
        \/ ArgumentError(result)

====
